---- MODULE Spec2Model ----
(***************************************************************************)
(* EpicHEX: the EHEX image codec and pixel grid.                           *)
(*                                                                         *)
(* Two programs share the class name EHEXImage: the v1 editor (main.js,    *)
(* RGBA pixels, magic EHEX) and the v2 editor (palette indices, magic      *)
(* EHEX2).  A behaviour of this model is a run of one of them: gen is 1 or *)
(* 2 and never changes.                                                    *)
(*                                                                         *)
(* A JavaScript string is modelled as the sequence of its characters (each *)
(* a one-character TLA+ string), and a text by the sequence of lines that  *)
(* data.split('\n') returns for it (never empty).                          *)
(* A JavaScript number is an integer; NaN and undefined are two integers   *)
(* outside the range of the numbers the model computes with.               *)
(***************************************************************************)
EXTENDS Integers, Sequences, FiniteSets, TLC

VARIABLES gen, img, last, app

vars == <<gen, img, last, app>>

----------------------------------------------------------------------------
(* Bounds of the model *)

\* side of the largest small grid that is constructed, resized to or declared
MaxDim == 2

\* a session of an interactive program is followed for this many events
MaxEvents == 6

----------------------------------------------------------------------------
(* JavaScript values *)

\* parseInt's result on a string with no leading digit
NaN == -999

\* the value of a missing array element or string index
Undefined == -998

IsNum(v) == v # NaN /\ v # Undefined

\* a < b as JavaScript evaluates it on numbers: false when either is NaN
Lt(a, b) == a # NaN /\ b # NaN /\ a < b

\* number of iterations of  for (let i = 0; i < n; i++)
Count(n) == IF Lt(0, n) THEN n ELSE 0

\* Math.min on two numbers
Min(a, b) == IF a = NaN \/ b = NaN THEN NaN ELSE IF a < b THEN a ELSE b

\* the errors the code throws, by message; TypeError is the engine's own, raised
\* by an access through undefined
NoError == "none"
InvalidFile == "Invalid EHEX file"
V1NotSupported == "EHEX v1 files are not supported. Please convert to v2 format."
UnsupportedVersion == "Unsupported EHEX version"
TypeError == "TypeError"

----------------------------------------------------------------------------
(* Strings *)

LowerDigits == <<"0","1","2","3","4","5","6","7","8","9","a","b","c","d","e","f">>
UpperDigits == <<"0","1","2","3","4","5","6","7","8","9","A","B","C","D","E","F">>

\* the digits by character, in both cases
DigitTable ==
    [c \in {LowerDigits[i] : i \in 1..16} \cup {UpperDigits[i] : i \in 1..16} |->
        IF \E i \in 1..16 : LowerDigits[i] = c
        THEN (CHOOSE i \in 1..16 : LowerDigits[i] = c) - 1
        ELSE (CHOOSE i \in 1..16 : UpperDigits[i] = c) - 1]

\* the value of character c as a digit, or 16 when it is none
DigitValue(c) == IF c \in DOMAIN DigitTable THEN DigitTable[c] ELSE 16

RECURSIVE DigitsOf(_, _)
DigitsOf(n, radix) ==
    IF n < radix THEN <<LowerDigits[n + 1]>>
    ELSE DigitsOf(n \div radix, radix) \o <<LowerDigits[(n % radix) + 1]>>

\* Number.prototype.toString(radix), and String(n) in a template literal for
\* radix 10
NumToString(n, radix) ==
    IF n = NaN THEN <<"N","a","N">>
    ELSE IF n < 0 THEN <<"-">> \o DigitsOf(-n, radix)
    ELSE DigitsOf(n, radix)

\* String.prototype.padStart(2, '0')
PadStart2(s) == IF Len(s) = 0 THEN <<"0","0">> ELSE IF Len(s) = 1 THEN <<"0">> \o s ELSE s

\* String.prototype.toUpperCase, on the characters the model writes
UpperChar(c) ==
    IF c \in DOMAIN DigitTable THEN UpperDigits[DigitTable[c] + 1]
    ELSE IF c = "x" THEN "X" ELSE c

ToUpperCase(s) == [i \in 1..Len(s) |-> UpperChar(s[i])]

\* String.prototype.substring(from) with a 0-based from
SubstringFrom(s, from) == SubSeq(s, from + 1, Len(s))

\* String.prototype.substring(from, to), 0-based, to exclusive, both clamped
Substring(s, from, to) ==
    SubSeq(s, (IF from > Len(s) THEN Len(s) ELSE from) + 1, IF to > Len(s) THEN Len(s) ELSE to)

StartsWith(s, prefix) ==
    Len(s) >= Len(prefix) /\ SubSeq(s, 1, Len(prefix)) = prefix

\* length of the longest prefix of s made of digits of the radix
RECURSIVE DigitPrefixLen(_, _)
DigitPrefixLen(s, radix) ==
    IF Len(s) = 0 \/ DigitValue(s[1]) >= radix THEN 0
    ELSE 1 + DigitPrefixLen(Tail(s), radix)

RECURSIVE DigitsValue(_, _, _)
DigitsValue(s, radix, acc) ==
    IF Len(s) = 0 THEN acc
    ELSE DigitsValue(Tail(s), radix, acc * radix + DigitValue(s[1]))

RECURSIVE SkipSpaces(_)
SkipSpaces(s) == IF Len(s) > 0 /\ s[1] = " " THEN SkipSpaces(Tail(s)) ELSE s

\* parseInt(s, radix); radix 10 stands for the call without a radix.  Leading
\* blanks are skipped, a sign is read, a 0x prefix switches to radix 16, then
\* the longest run of digits is the value; no digit at all gives NaN.
ParseInt(s, radix) ==
    LET t == SkipSpaces(s)
        neg == Len(t) > 0 /\ t[1] = "-"
        u == IF Len(t) > 0 /\ t[1] \in {"-", "+"} THEN Tail(t) ELSE t
        hex == Len(u) >= 2 /\ u[1] = "0" /\ u[2] \in {"x", "X"}
        v == IF hex THEN SubSeq(u, 3, Len(u)) ELSE u
        r == IF hex THEN 16 ELSE radix
        k == DigitPrefixLen(v, r)
    IN  IF k = 0 THEN NaN
        ELSE IF neg THEN 0 - DigitsValue(SubSeq(v, 1, k), r, 0)
        ELSE DigitsValue(SubSeq(v, 1, k), r, 0)

\* position of the first "x" in s, or 0
RECURSIVE FirstX(_, _)
FirstX(s, i) == IF i > Len(s) THEN 0 ELSE IF s[i] = "x" THEN i ELSE FirstX(s, i + 1)

\* s.split('x')[0]
SplitX0(s) == IF FirstX(s, 1) = 0 THEN s ELSE SubSeq(s, 1, FirstX(s, 1) - 1)

\* parseInt(s.split('x')[1]); the element is undefined when s holds no "x", and
\* parseInt(undefined) is NaN
ParseSplitX1(s) ==
    IF FirstX(s, 1) = 0 THEN NaN
    ELSE ParseInt(SplitX0(SubSeq(s, FirstX(s, 1) + 1, Len(s))), 10)

----------------------------------------------------------------------------
(* Literals of the format *)

EHEX == <<"E","H","E","X">>
EHEX2 == <<"E","H","E","X","2">>
SizePrefix == <<"S","I","Z","E",":">>
ChannelsPrefix == <<"C","H","A","N","N","E","L","S",":">>
PixelsMarker == <<"P","I","X","E","L","S",":">>

\* the v2 format maximum
MAX_WIDTH == 150
MAX_HEIGHT == 25

\* the fill of a new v1 grid, and what the v1 getPixel returns out of bounds
BlackOpaque == <<0, 0, 0, 255>>
OutOfBoundsV1 == <<0, 0, 0, 0>>

\* what a v1 getPixel returns when the row it reads has no such element
UndefinedPixel == << >>

----------------------------------------------------------------------------
(* EHEXImage, v2 (palette indices) *)

\* createEmptyPixels: height rows of width cells, each filled with `fill`
createEmptyPixels(width, height, fill) ==
    [y \in 1..Count(height) |-> [x \in 1..Count(width) |-> fill]]

\* constructorV2 without the Math.min calls
constructorV2_NoClamp(width, height) ==
    [magic |-> EHEX2, version |-> 2, width |-> width, height |-> height,
     pixels |-> createEmptyPixels(width, height, 0)]

constructorV2(width, height) ==
    [magic |-> EHEX2, version |-> 2,
     width |-> Min(width, MAX_WIDTH), height |-> Min(height, MAX_HEIGHT),
     pixels |-> createEmptyPixels(Min(width, MAX_WIDTH), Min(height, MAX_HEIGHT), 0)]

\* InBounds with the upper comparisons off by one
InBounds_OffByOne(im, x, y) ==
    /\ x >= 0 /\ ~Lt(im.width, x)
    /\ y >= 0 /\ ~Lt(im.height, y)

\* the guard of setPixel and getPixel
InBounds(im, x, y) ==
    /\ x >= 0 /\ Lt(x, im.width)
    /\ y >= 0 /\ Lt(y, im.height)

\* this.pixels[y][x] = value: [err, img].  Writing through a missing row
\* throws; writing past the end of a row extends it, the gap reading undefined.
StoreCell(im, x, y, value, hole) ==
    IF y + 1 > Len(im.pixels) THEN [err |-> TypeError, img |-> im]
    ELSE IF x + 1 <= Len(im.pixels[y + 1])
    THEN [err |-> NoError, img |-> [im EXCEPT !.pixels[y + 1][x + 1] = value]]
    ELSE [err |-> NoError,
          img |-> [im EXCEPT !.pixels[y + 1] =
                      @ \o [i \in 1..(x - Len(@)) |-> hole] \o <<value>>]]

setPixelV2(im, x, y, charIndex) ==
    IF InBounds(im, x, y) THEN StoreCell(im, x, y, charIndex, Undefined)
    ELSE [err |-> NoError, img |-> im]

\* this.pixels[y][x]: [err, ret]
LoadCell(im, x, y, hole) ==
    IF y + 1 > Len(im.pixels) THEN [err |-> TypeError, ret |-> hole]
    ELSE IF x + 1 > Len(im.pixels[y + 1]) THEN [err |-> NoError, ret |-> hole]
    ELSE [err |-> NoError, ret |-> im.pixels[y + 1][x + 1]]

getPixelV2(im, x, y) ==
    IF InBounds(im, x, y) THEN LoadCell(im, x, y, Undefined)
    ELSE [err |-> NoError, ret |-> 0]

\* the header lines both encoders start with
HeaderLines(im) ==
    << im.magic,
       <<"V">> \o NumToString(im.version, 10),
       SizePrefix \o NumToString(im.width, 10) \o <<"x">> \o NumToString(im.height, 10) >>

\* the strings of ss joined in order (by halves, to keep the recursion shallow)
RECURSIVE Concat(_)
Concat(ss) ==
    IF Len(ss) = 0 THEN << >>
    ELSE IF Len(ss) = 1 THEN ss[1]
    ELSE Concat(SubSeq(ss, 1, Len(ss) \div 2)) \o Concat(SubSeq(ss, Len(ss) \div 2 + 1, Len(ss)))

\* whether the pixel loops of encode read through a missing row or turn a
\* missing cell into text, either of which throws
EncodeThrows(im, hole) ==
    \E y \in 1..Count(im.height) :
        /\ Count(im.width) > 0
        /\ \/ y > Len(im.pixels)
           \/ \E x \in 1..Count(im.width) :
                 \/ x > Len(im.pixels[y])
                 \/ im.pixels[y][x] = hole

encodeRowV2(im, y) ==
    Concat([x \in 1..Count(im.width) |-> NumToString(im.pixels[y][x], 16)])

\* encode: [err, ret]; ret is the text as the lines between its "\n", the last
\* one empty because the text ends with "\n"
encodeV2(im) ==
    IF EncodeThrows(im, Undefined) THEN [err |-> TypeError, ret |-> << >>]
    ELSE [err |-> NoError,
          ret |-> HeaderLines(im) \o <<PixelsMarker>>
                  \o [y \in 1..Count(im.height) |-> encodeRowV2(im, y)]
                  \o << << >> >>]

\* parseRowV2 with the radix forgotten: parseInt(line[x])
parseRowV2_NoRadix(line, width) ==
    [x \in 1..Count(width) |->
        IF x <= Len(line) THEN ParseInt(<<line[x]>>, 10) ELSE NaN]

\* one row of parsePixels: parseInt(line[x], 16) for x < width; line[x] past the
\* end of the line is undefined and parses to NaN
parseRowV2(line, width) ==
    [x \in 1..Count(width) |->
        IF x <= Len(line) THEN ParseInt(<<line[x]>>, 16) ELSE NaN]

\* parsePixels from row y on (0-based), rows holding the rows pushed so far:
\* [err, img].  pixelLines[y] is undefined past the last line, and line[x] then
\* throws, leaving this.pixels with the rows pushed before.
RECURSIVE parseRowsV2(_, _, _, _)
parseRowsV2(im, pixelLines, y, rows) ==
    IF ~Lt(y, im.height) THEN [err |-> NoError, img |-> [im EXCEPT !.pixels = rows]]
    ELSE IF y + 1 > Len(pixelLines) /\ Count(im.width) > 0
    THEN [err |-> TypeError, img |-> [im EXCEPT !.pixels = rows]]
    ELSE parseRowsV2(im, pixelLines, y + 1,
            Append(rows, IF y + 1 > Len(pixelLines) THEN << >>
                         ELSE parseRowV2(pixelLines[y + 1], im.width)))

parsePixelsV2(im, pixelLines) == parseRowsV2(im, pixelLines, 0, << >>)

\* headerLoopV2 checking the version only on the line after the magic
RECURSIVE headerLoopV2_VersionFirst(_, _, _)
headerLoopV2_VersionFirst(im, lines, i) ==
    IF i > Len(lines) THEN [err |-> NoError, img |-> im]
    ELSE LET line == lines[i] IN
        IF StartsWith(line, <<"V">>) /\ i = 2
        THEN IF ParseInt(SubstringFrom(line, 1), 10) # 2
             THEN [err |-> UnsupportedVersion, img |-> im]
             ELSE headerLoopV2_VersionFirst(im, lines, i + 1)
        ELSE IF StartsWith(line, SizePrefix)
        THEN headerLoopV2_VersionFirst(
                 [im EXCEPT !.width = ParseInt(SplitX0(SubstringFrom(line, 5)), 10),
                            !.height = ParseSplitX1(SubstringFrom(line, 5))],
                 lines, i + 1)
        ELSE IF line = PixelsMarker
        THEN parsePixelsV2(im, SubSeq(lines, i + 1, Len(lines)))
        ELSE headerLoopV2_VersionFirst(im, lines, i + 1)

\* the header loop of decode from line i on (1-based; lines[1] is the magic)
RECURSIVE headerLoopV2(_, _, _)
headerLoopV2(im, lines, i) ==
    IF i > Len(lines) THEN [err |-> NoError, img |-> im]
    ELSE LET line == lines[i] IN
        IF StartsWith(line, <<"V">>)
        THEN IF ParseInt(SubstringFrom(line, 1), 10) # 2
             THEN [err |-> UnsupportedVersion, img |-> im]
             ELSE headerLoopV2(im, lines, i + 1)
        ELSE IF StartsWith(line, SizePrefix)
        THEN headerLoopV2([im EXCEPT !.width = ParseInt(SplitX0(SubstringFrom(line, 5)), 10),
                                     !.height = ParseSplitX1(SubstringFrom(line, 5))],
                          lines, i + 1)
        ELSE IF line = PixelsMarker
        THEN parsePixelsV2(im, SubSeq(lines, i + 1, Len(lines)))
        ELSE headerLoopV2(im, lines, i + 1)

\* magicErrorV2 without the second check: the legacy magic passes
magicErrorV2_NoLegacyCheck(magic) ==
    IF magic # EHEX2 /\ magic # EHEX THEN InvalidFile ELSE NoError

\* the magic checks of decode
magicErrorV2(magic) ==
    IF magic # EHEX2 /\ magic # EHEX THEN InvalidFile
    ELSE IF magic = EHEX THEN V1NotSupported
    ELSE NoError

\* decode: [err, img]
decodeV2(im, lines) ==
    IF magicErrorV2(lines[1]) # NoError THEN [err |-> magicErrorV2(lines[1]), img |-> im]
    ELSE headerLoopV2(im, lines, 2)

\* resize with the fill branch lost: every cell is copied from the old array
resize_NoFill(im, w, h) ==
    LET newWidth == Min(w, MAX_WIDTH)
        newHeight == Min(h, MAX_HEIGHT)
        newPixels ==
            [y \in 1..Count(newHeight) |->
                [x \in 1..Count(newWidth) |->
                    IF y <= Len(im.pixels) /\ x <= Len(im.pixels[y])
                    THEN im.pixels[y][x]
                    ELSE Undefined]]
    IN  [err |-> NoError,
         img |-> [im EXCEPT !.pixels = newPixels,
                            !.width = newWidth, !.height = newHeight]]

\* whether resize reads this.pixels[y][x] through a missing row
ResizeThrows(im, newWidth, newHeight) ==
    \E y \in 0..(Count(newHeight) - 1) :
        /\ Count(newWidth) > 0
        /\ Lt(y, im.height) /\ Lt(0, im.width)
        /\ y + 1 > Len(im.pixels)

\* resize: [err, img]
resize(im, w, h) ==
    LET newWidth == Min(w, MAX_WIDTH)
        newHeight == Min(h, MAX_HEIGHT)
        newPixels ==
            [y \in 1..Count(newHeight) |->
                [x \in 1..Count(newWidth) |->
                    IF Lt(y - 1, im.height) /\ Lt(x - 1, im.width)
                    THEN LoadCell(im, x - 1, y - 1, Undefined).ret
                    ELSE 0]]
    IN  IF ResizeThrows(im, newWidth, newHeight) THEN [err |-> TypeError, img |-> im]
        ELSE [err |-> NoError,
              img |-> [im EXCEPT !.pixels = newPixels,
                                 !.width = newWidth, !.height = newHeight]]

----------------------------------------------------------------------------
(* EHEXImage, v1 (RGBA pixels) *)

constructorV1(width, height) ==
    [magic |-> EHEX, version |-> 1, width |-> width, height |-> height,
     channels |-> 4,
     pixels |-> createEmptyPixels(width, height, BlackOpaque)]

setPixelV1(im, x, y, rgba) ==
    IF InBounds(im, x, y) THEN StoreCell(im, x, y, rgba, UndefinedPixel)
    ELSE [err |-> NoError, img |-> im]

getPixelV1(im, x, y) ==
    IF InBounds(im, x, y) THEN LoadCell(im, x, y, UndefinedPixel)
    ELSE [err |-> NoError, ret |-> OutOfBoundsV1]

\* rgbaToHex without padStart
rgbaToHex_NoPad(rgba) ==
    ToUpperCase(Concat([c \in 1..4 |-> NumToString(rgba[c], 16)]))

rgbaToHex(rgba) ==
    ToUpperCase(Concat([c \in 1..4 |-> PadStart2(NumToString(rgba[c], 16))]))

hexToRgba(hex) ==
    << ParseInt(Substring(hex, 0, 2), 16), ParseInt(Substring(hex, 2, 4), 16),
       ParseInt(Substring(hex, 4, 6), 16), ParseInt(Substring(hex, 6, 8), 16) >>

encodeRowV1(im, y) ==
    Concat([x \in 1..Count(im.width) |-> rgbaToHex(im.pixels[y][x])])

encodeV1(im) ==
    IF EncodeThrows(im, UndefinedPixel) THEN [err |-> TypeError, ret |-> << >>]
    ELSE [err |-> NoError,
          ret |-> HeaderLines(im)
                  \o <<ChannelsPrefix \o NumToString(im.channels, 10), PixelsMarker>>
                  \o [y \in 1..Count(im.height) |-> encodeRowV1(im, y)]
                  \o << << >> >>]

parseRowV1(line, width) ==
    [x \in 1..Count(width) |-> hexToRgba(Substring(line, (x - 1) * 8, x * 8))]

\* as parseRowsV2: line.substring throws on the undefined line
RECURSIVE parseRowsV1(_, _, _, _)
parseRowsV1(im, pixelLines, y, rows) ==
    IF ~Lt(y, im.height) THEN [err |-> NoError, img |-> [im EXCEPT !.pixels = rows]]
    ELSE IF y + 1 > Len(pixelLines) /\ Count(im.width) > 0
    THEN [err |-> TypeError, img |-> [im EXCEPT !.pixels = rows]]
    ELSE parseRowsV1(im, pixelLines, y + 1,
            Append(rows, IF y + 1 > Len(pixelLines) THEN << >>
                         ELSE parseRowV1(pixelLines[y + 1], im.width)))

parsePixelsV1(im, pixelLines) == parseRowsV1(im, pixelLines, 0, << >>)

RECURSIVE headerLoopV1(_, _, _)
headerLoopV1(im, lines, i) ==
    IF i > Len(lines) THEN [err |-> NoError, img |-> im]
    ELSE LET line == lines[i] IN
        IF StartsWith(line, <<"V">>)
        THEN headerLoopV1([im EXCEPT !.version = ParseInt(SubstringFrom(line, 1), 10)],
                          lines, i + 1)
        ELSE IF StartsWith(line, SizePrefix)
        THEN headerLoopV1([im EXCEPT !.width = ParseInt(SplitX0(SubstringFrom(line, 5)), 10),
                                     !.height = ParseSplitX1(SubstringFrom(line, 5))],
                          lines, i + 1)
        ELSE IF StartsWith(line, ChannelsPrefix)
        THEN headerLoopV1([im EXCEPT !.channels = ParseInt(SubstringFrom(line, 9), 10)],
                          lines, i + 1)
        ELSE IF line = PixelsMarker
        THEN parsePixelsV1(im, SubSeq(lines, i + 1, Len(lines)))
        ELSE headerLoopV1(im, lines, i + 1)

\* decodeV1 without the magic check
decodeV1_NoMagicCheck(im, lines) == headerLoopV1(im, lines, 2)

decodeV1(im, lines) ==
    IF lines[1] # EHEX THEN [err |-> InvalidFile, img |-> im]
    ELSE headerLoopV1(im, lines, 2)

----------------------------------------------------------------------------
(* createSampleEHEX: the 8x8 test image both programs can write *)

SampleSide == 8

\* the v2 pattern: cell (x, y) is (x + y) % 16
samplePixelV2(x, y) == (x + y) % 16

\* the v1 pattern: r = x * 32, g = y * 32, b = (x + y) * 16, a = 255
samplePixelV1(x, y) == <<x * 32, y * 32, (x + y) * 16, 255>>

\* the inner loop of createSampleEHEX: row y from column x on; a call that
\* throws ends the loops.  (Each step is bound by a set so that it is evaluated
\* once.)
RECURSIVE paintSampleRow(_, _, _, _)
paintSampleRow(r, version, y, x) ==
    IF x >= SampleSide \/ r.err # NoError THEN r
    ELSE CHOOSE result \in
            { paintSampleRow(painted, version, y, x + 1) :
              painted \in { IF version = 2
                            THEN setPixelV2(r.img, x, y, samplePixelV2(x, y))
                            ELSE setPixelV1(r.img, x, y, samplePixelV1(x, y)) } } : TRUE

\* the outer loop, from row y on
RECURSIVE paintSample(_, _, _)
paintSample(r, version, y) ==
    IF y >= SampleSide \/ r.err # NoError THEN r
    ELSE CHOOSE result \in
            { paintSample(row, version, y + 1) :
              row \in { paintSampleRow(r, version, y, 0) } } : TRUE

createSample(version) ==
    paintSample([err |-> NoError,
                 img |-> IF version = 2 THEN constructorV2(SampleSide, SampleSide)
                         ELSE constructorV1(SampleSide, SampleSide)], version, 0).img

\* the two sample images
sampleV2 == createSample(2)
sampleV1 == createSample(1)

----------------------------------------------------------------------------
(* The inputs the model draws *)

\* sizes asked of the constructor and of resize: empty, the small ones, and
\* the ones at and just over the v2 maximum
SmallSizes == {<<0, 0>>} \cup ({1, MaxDim} \X {1, MaxDim})
Sizes == SmallSizes
         \cup {<<MAX_WIDTH, 1>>, <<MAX_WIDTH + 1, 1>>, <<1, MAX_HEIGHT>>, <<1, MAX_HEIGHT + 1>>}

\* coordinates tried against an image: its first and last cell, and one
\* neighbour outside each of its four edges
Points(im) ==
    {<<0, 0>>, <<-1, 0>>, <<0, -1>>}
    \cup (IF im.width = NaN \/ im.height = NaN THEN {}
          ELSE {<<im.width - 1, im.height - 1>>, <<im.width, 0>>, <<0, im.height>>})

\* palette indices painted: the default and the last; createSampleEHEX paints
\* the ones between
PaletteSamples == {0, 15}

\* a value setPixel is not meant to be given
BadIndex == Len(LowerDigits)

\* colours painted: the default fill, and one with a one-digit channel, letters
\* in both nibbles and a zero alpha
ColourSamples == {BlackOpaque, <<18, 171, 9, 0>>}

VersionLine(v) == <<"V">> \o NumToString(v, 10)
SizeLine(w, h) == SizePrefix \o NumToString(w, 10) \o <<"x">> \o NumToString(h, 10)

\* the header lines between the magic and the marker, in the order named
HeaderOf(order, v, w, h, version) ==
    LET c == IF version = 1 THEN << ChannelsPrefix \o <<"4">> >> ELSE << >>
    IN  CASE order = "VS" -> <<VersionLine(v), SizeLine(w, h)>> \o c
          [] order = "SV" -> <<SizeLine(w, h)>> \o c \o <<VersionLine(v)>>
          [] order = "S"  -> <<SizeLine(w, h)>> \o c
          [] order = "V"  -> <<VersionLine(v)>> \o c

\* a data row of n pixel-groups
DataRow(n, y, version) ==
    IF version = 2 THEN [x \in 1..n |-> LowerDigits[((x - 1 + y) % 16) + 1]]
    ELSE Concat([x \in 1..n |-> <<"0", "a", "B", "c", LowerDigits[((x - 1 + y) % 16) + 1], "9", "F", "F">>])

\* the lines after the header: the marker and the data lines.
\*   full       h rows of w groups, and the text ends with "\n"
\*   noNewline  the same without the final "\n"
\*   shortRows  every row one group short
\*   fewLinesNL one row missing, the text ends with "\n"
\*   fewLines   one row missing, no final "\n"
\*   noMarker   nothing: the text ends after the header
BodyOf(kind, w, h, version) ==
    LET rows(n, m) == [y \in 1..m |-> DataRow(n, y - 1, version)]
    IN  CASE kind = "full"       -> <<PixelsMarker>> \o rows(w, h) \o << << >> >>
          [] kind = "noNewline"  -> <<PixelsMarker>> \o rows(w, h)
          [] kind = "shortRows"  -> <<PixelsMarker>> \o rows(w - 1, h) \o << << >> >>
          [] kind = "fewLinesNL" -> <<PixelsMarker>> \o rows(w, h - 1) \o << << >> >>
          [] kind = "fewLines"   -> <<PixelsMarker>> \o rows(w, h - 1)
          [] kind = "noMarker"   -> << >>

TextOf(magic, order, v, size, kind, version) ==
    <<magic>> \o HeaderOf(order, v, size[1], size[2], version)
              \o BodyOf(kind, size[1], size[2], version)

BodyKinds == {"full", "noNewline", "shortRows", "fewLinesNL", "fewLines", "noMarker"}

\* first lines that are no magic of either format
NoMagic == { <<"E","H","E","X","3">>, << >> }

\* the size most texts declare
Declared == <<MaxDim, MaxDim>>

\* the texts given to the v2 decoder
TextsV2 ==
    {TextOf(EHEX2, o, v, Declared, "full", 2) : o \in {"VS", "SV"}, v \in {1, 2, 3}}
    \cup {TextOf(EHEX2, "VS", 2, Declared, k, 2) : k \in BodyKinds}
    \cup {TextOf(EHEX2, "VS", 2, s, "full", 2) : s \in {<<1, 1>>, <<MAX_WIDTH + 1, 1>>}}
    \cup {TextOf(EHEX2, o, 2, Declared, "full", 2) : o \in {"S", "V"}}
    \cup {TextOf(EHEX, "VS", 1, <<1, 1>>, "full", 1)}
    \cup {TextOf(m, "VS", 2, <<1, 1>>, "full", 2) : m \in NoMagic}

\* the texts given to the v1 decoder
TextsV1 ==
    {TextOf(EHEX, o, v, Declared, "full", 1) : o \in {"VS", "SV"}, v \in {1, 2, 3}}
    \cup {TextOf(EHEX, "VS", 1, Declared, k, 1) : k \in BodyKinds}
    \cup {TextOf(EHEX, "VS", 1, <<1, 1>>, "full", 1)}
    \cup {TextOf(EHEX, o, 1, Declared, "full", 1) : o \in {"S", "V"}}
    \cup {TextOf(EHEX2, "VS", 2, <<1, 1>>, "full", 2)}
    \cup {TextOf(m, "VS", 1, <<1, 1>>, "full", 1) : m \in NoMagic}

\* image objects in the states a load can find them in: new; after a decode that
\* succeeded, one that threw in the data lines, one that read garbage, and one
\* that found no marker
OtherKinds == {"full", "fewLines", "shortRows", "noMarker"}

OtherImagesV2 ==
    {constructorV2(20, 10)}
    \cup {decodeV2(constructorV2(20, 10), TextOf(EHEX2, "VS", 2, Declared, k, 2)).img :
             k \in OtherKinds}

OtherImagesV1 ==
    {constructorV1(20, 10)}
    \cup {decodeV1(constructorV1(20, 10), TextOf(EHEX, "VS", 3, Declared, k, 1)).img :
             k \in OtherKinds}

----------------------------------------------------------------------------
(* EHEXApp, the v2 editor *)

\* this.filename = null
Null == "null"

\* the name saveImage makes up: `image_${Date.now()}.ehex`
GeneratedName == "image_now.ehex"

\* the error of fs.readFileSync
IOError == "IOError"

\* the state after EHEXApp's constructor, started without a file name.
\* inputReading: the resize input reads a line; submitted: the values entered
\* since the dialog was last shown; crashed: an error escaped a handler;
\* events: the number of events the session has handled
newApp ==
    [kind |-> "editor", filename |-> Null, currentChar |-> 1, brushSize |-> 1,
     cursorX |-> 0, cursorY |-> 0,
     showResizePanel |-> FALSE, resizeWidth |-> 20, resizeHeight |-> 10,
     resizeStep |-> "width", inputReading |-> FALSE, submitted |-> << >>,
     status |-> <<"Ready", "">>, crashed |-> FALSE, events |-> 0]

\* how a handler ended: the app and the image it left, the error that escaped
\* it (NoError when it returned) and the error it caught
Returned(a, im) == [app |-> a, img |-> im, err |-> NoError, caught |-> NoError]
Caught(a, im, e) ==
    [app |-> [a EXCEPT !.status = <<"Error", e>>], img |-> im, err |-> NoError, caught |-> e]
Escaped(a, im, e) ==
    [app |-> [a EXCEPT !.crashed = TRUE], img |-> im, err |-> e, caught |-> NoError]

\* whether updateDisplay throws: the editors read every in-bounds cell; the v2
\* one throws on a missing row, the v1 one also on a missing cell, which it
\* destructures
DisplayThrows(version, im) ==
    IF version = 2
    THEN \E y \in 1..Count(im.height) : Count(im.width) > 0 /\ y > Len(im.pixels)
    ELSE EncodeThrows(im, UndefinedPixel)

ReadyStatus == <<"Ready", "">>

moveCursor(a, im, dx, dy) ==
    LET newX == a.cursorX + dx
        newY == a.cursorY + dy
    IN  IF newX >= 0 /\ Lt(newX, im.width) /\ newY >= 0 /\ Lt(newY, im.height)
        THEN LET b == [a EXCEPT !.cursorX = newX, !.cursorY = newY]
             IN  IF DisplayThrows(2, im) THEN Escaped(b, im, TypeError)
                 ELSE Returned([b EXCEPT !.status = ReadyStatus], im)
        ELSE Returned(a, im)

\* the loops of paintAtCursor from step k on, dy outside and dx inside; a
\* setPixel that throws ends them
RECURSIVE paintLoop(_, _, _)
paintLoop(r, a, k) ==
    IF k >= a.brushSize * a.brushSize \/ r.err # NoError THEN r
    ELSE LET paintX == a.cursorX + (k % a.brushSize)
             paintY == a.cursorY + (k \div a.brushSize)
         IN  IF Lt(paintX, r.img.width) /\ Lt(paintY, r.img.height)
             THEN CHOOSE q \in {paintLoop(p, a, k + 1) :
                                   p \in {setPixelV2(r.img, paintX, paintY, a.currentChar)}} : TRUE
             ELSE paintLoop(r, a, k + 1)

paintAtCursor(a, im) ==
    CHOOSE out \in
        { IF r.err # NoError THEN Escaped(a, r.img, r.err)
          ELSE IF DisplayThrows(2, r.img) THEN Escaped(a, r.img, TypeError)
          ELSE Returned(a, r.img) :
              r \in {paintLoop([err |-> NoError, img |-> im], a, 0)} } : TRUE

\* (x, y) is the click in image coordinates: data.x - canvasBox.left - 1 and
\* data.y - canvasBox.top - 1
handleCanvasClick(a, im, x, y) ==
    IF a.showResizePanel THEN Returned(a, im)
    ELSE IF x >= 0 /\ Lt(x, im.width) /\ y >= 0 /\ Lt(y, im.height)
    THEN paintAtCursor([a EXCEPT !.cursorX = x, !.cursorY = y, !.status = ReadyStatus], im)
    ELSE Returned(a, im)

saveImage(a, im) ==
    LET b == IF a.filename = Null THEN [a EXCEPT !.filename = GeneratedName] ELSE a
    IN  IF encodeV2(im).err # NoError THEN Escaped(b, im, encodeV2(im).err)
        ELSE Returned([b EXCEPT !.status = <<"Saved", b.filename>>], im)

\* a file of the directory: its name, whether reading it succeeds, its text
File(name, readable, text) == [name |-> name, readable |-> readable, text |-> text]

\* the directory holds no .ehex file
NoFiles == File(Null, FALSE, << >>)

\* EHEXImage.load: [err, img]
loadV2(im, file) ==
    IF ~file.readable THEN [err |-> IOError, img |-> im] ELSE decodeV2(im, file.text)

\* loadImage with the file the directory listing gave first, or with none
loadImage(a, im, file) ==
    IF file = NoFiles THEN Returned([a EXCEPT !.status = <<"NoFiles", "">>], im)
    ELSE LET b == [a EXCEPT !.filename = file.name]
         IN  CHOOSE out \in
                 { IF d.err # NoError THEN Caught(b, d.img, d.err)
                   ELSE IF DisplayThrows(2, d.img)
                   THEN Caught([b EXCEPT !.cursorX = 0, !.cursorY = 0], d.img, TypeError)
                   ELSE Returned([b EXCEPT !.cursorX = 0, !.cursorY = 0,
                                           !.status = <<"Loaded", b.filename>>], d.img) :
                       d \in {loadV2(im, file)} } : TRUE

newImage(a, im) ==
    Returned([a EXCEPT !.filename = Null, !.cursorX = 0, !.cursorY = 0,
                       !.status = ReadyStatus],
             constructorV2(20, 10))

changeChar(a, im) ==
    Returned([a EXCEPT !.currentChar = (a.currentChar + 1) % 16, !.status = ReadyStatus], im)

changeBrushSize(a, im) ==
    Returned([a EXCEPT !.brushSize = IF a.brushSize < 3 THEN a.brushSize + 1 ELSE 1,
                       !.status = ReadyStatus], im)

\* resizeInput.focus() starts the reading of a line
showResizeDialog(a, im) ==
    Returned([a EXCEPT !.showResizePanel = TRUE, !.resizeStep = "width",
                       !.inputReading = TRUE], im)

hideResizeDialog(a, im) == Returned([a EXCEPT !.showResizePanel = FALSE], im)

applyResize(a, im) ==
    CHOOSE out \in
        { IF r.err # NoError THEN Escaped(a, r.img, r.err)
          ELSE LET b == [a EXCEPT !.cursorX = Min(a.cursorX, a.resizeWidth - 1),
                                  !.cursorY = Min(a.cursorY, a.resizeHeight - 1)]
               IN  IF DisplayThrows(2, r.img) THEN Escaped(b, r.img, TypeError)
                   ELSE Returned([b EXCEPT !.status = <<"Resized", "">>,
                                           !.showResizePanel = FALSE], r.img) :
              r \in {resize(im, a.resizeWidth, a.resizeHeight)} } : TRUE

\* value is parseInt(this.resizeInput.value)
handleResizeInput(a, im, value) ==
    IF a.resizeStep = "width"
    THEN IF value # NaN /\ value > 0 /\ value <= 150
         THEN Returned([a EXCEPT !.resizeWidth = value, !.resizeStep = "height",
                                 !.inputReading = TRUE], im)
         ELSE Returned([a EXCEPT !.status = <<"Error", "Width must be between 1 and 150">>,
                                 !.showResizePanel = FALSE], im)
    ELSE IF a.resizeStep = "height"
    THEN IF value # NaN /\ value > 0 /\ value <= 25
         THEN applyResize([a EXCEPT !.resizeHeight = value], im)
         ELSE Returned([a EXCEPT !.status = <<"Error", "Height must be between 1 and 25">>,
                                 !.showResizePanel = FALSE], im)
    ELSE Returned(a, im)

----------------------------------------------------------------------------
(* EHEXApp, the v1 editor, and EHEXViewer *)

newAppV1 ==
    [kind |-> "editor", filename |-> Null, currentColor |-> <<255, 255, 255, 255>>,
     brushSize |-> 1, cursorX |-> 0, cursorY |-> 0,
     status |-> <<"Ready", "">>, crashed |-> FALSE, events |-> 0]

loadV1(im, file) ==
    IF ~file.readable THEN [err |-> IOError, img |-> im] ELSE decodeV1(im, file.text)

\* the v1 loadImage has no try: what load or updateDisplay throws escapes it
loadImageV1(a, im, file) ==
    IF file = NoFiles THEN Returned([a EXCEPT !.status = <<"NoFiles", "">>], im)
    ELSE LET b == [a EXCEPT !.filename = file.name]
         IN  CHOOSE out \in
                 { IF d.err # NoError THEN Escaped(b, d.img, d.err)
                   ELSE IF DisplayThrows(1, d.img) THEN Escaped(b, d.img, TypeError)
                   ELSE Returned([b EXCEPT !.status = <<"Loaded", b.filename>>], d.img) :
                       d \in {loadV1(im, file)} } : TRUE

newImageV1(a, im) ==
    Returned([a EXCEPT !.filename = Null, !.cursorX = 0, !.cursorY = 0,
                       !.status = ReadyStatus],
             constructorV1(20, 10))

\* the viewer before its constructor loads a file; status is the info panel
newViewer ==
    [kind |-> "viewer", filename |-> Null, fitMode |-> FALSE,
     status |-> <<"No image loaded", "">>, crashed |-> FALSE, events |-> 0]

\* EHEXViewer.loadImage; the screen is taken to be at least as large as the
\* image, so that updateDisplay reads every cell of it
viewerLoadImage(a, im, file) ==
    LET b == [a EXCEPT !.filename = file.name]
    IN  CHOOSE out \in
            { IF d.err # NoError THEN Caught(b, d.img, d.err)
              ELSE IF DisplayThrows(2, d.img) THEN Caught(b, d.img, TypeError)
              ELSE Returned([b EXCEPT !.status = <<"Image", b.filename>>], d.img) :
                  d \in {loadV2(im, file)} } : TRUE

toggleFitMode(a, im) ==
    LET b == [a EXCEPT !.fitMode = ~a.fitMode]
    IN  IF DisplayThrows(2, im) THEN Escaped(b, im, TypeError)
        ELSE Returned([b EXCEPT !.status = <<"Image", b.filename>>], im)

\* the .ehex files the v2 editor and the viewer find: one that loads, one a
\* data line short, one of another version declared after its size, one without
\* marker, and one that cannot be read
FilesV2 ==
    { File("full.ehex", TRUE, TextOf(EHEX2, "VS", 2, Declared, "full", 2)),
      File("short.ehex", TRUE, TextOf(EHEX2, "VS", 2, Declared, "fewLines", 2)),
      File("v3.ehex", TRUE, TextOf(EHEX2, "SV", 3, <<1, 1>>, "full", 2)),
      File("nomarker.ehex", TRUE, TextOf(EHEX2, "VS", 2, <<1, 1>>, "noMarker", 2)),
      File("dir.ehex", FALSE, << >>) }

\* the .ehex files the v1 editor finds
FilesV1 ==
    { File("full.ehex", TRUE, TextOf(EHEX, "VS", 1, Declared, "full", 1)),
      File("short.ehex", TRUE, TextOf(EHEX, "VS", 1, Declared, "fewLines", 1)),
      File("v2.ehex", TRUE, TextOf(EHEX2, "VS", 2, <<1, 1>>, "full", 2)),
      File("dir.ehex", FALSE, << >>) }

\* what is typed into the resize dialog, as parseInt reads it
ResizeValues(step) ==
    {NaN, 0, 1, MaxDim, IF step = "width" THEN MAX_WIDTH + 1 ELSE MAX_HEIGHT + 1}

AllResizeValues == ResizeValues("width") \cup ResizeValues("height")


----------------------------------------------------------------------------
(* State *)

\* gen:  which program runs, 1 (main.js, EHEX) or 2 (EHEX2)
\* img:  the EHEXImage object the program holds (currentImage)
\* last: the call made last: its name, arguments, the error it threw (NoError
\*       when it returned) and what it returned
\* app:  the EHEXApp (or EHEXViewer) object but for its currentImage, which is
\*       img

Call(op, args, err, ret) == [op |-> op, args |-> args, err |-> err, ret |-> ret]

\* EHEXApp's constructor: this.currentImage = new EHEXImage(20, 10)
Init ==
    /\ gen \in {1, 2}
    /\ img = IF gen = 2 THEN constructorV2(20, 10) ELSE constructorV1(20, 10)
    /\ last = Call("new", <<20, 10>>, NoError, 0)
    /\ app = IF gen = 2 THEN newApp ELSE newAppV1

----------------------------------------------------------------------------
(* Operations of the v2 program *)

NewV2(w, h) ==
    /\ gen = 2
    /\ img' = constructorV2(w, h)
    /\ last' = Call("new", <<w, h>>, NoError, 0)
    /\ UNCHANGED <<gen, app>>

CreateSampleV2 ==
    /\ gen = 2
    /\ \E sample \in {sampleV2} :
          /\ img' = sample
          /\ last' = Call("createSample", << >>, NoError, encodeV2(sample).ret)
    /\ UNCHANGED <<gen, app>>

SetPixelV2(x, y, v) ==
    /\ gen = 2
    /\ \E r \in {setPixelV2(img, x, y, v)} :
          /\ img' = r.img
          /\ last' = Call("setPixel", <<x, y, v>>, r.err, 0)
    /\ UNCHANGED <<gen, app>>

GetPixelV2(x, y) ==
    /\ gen = 2
    /\ \E r \in {getPixelV2(img, x, y)} : last' = Call("getPixel", <<x, y>>, r.err, r.ret)
    /\ UNCHANGED <<gen, img, app>>

EncodeV2 ==
    /\ gen = 2
    /\ \E r \in {encodeV2(img)} : last' = Call("encode", << >>, r.err, r.ret)
    /\ UNCHANGED <<gen, img, app>>

DecodeV2(text) ==
    /\ gen = 2
    /\ \E r \in {decodeV2(img, text)} :
          /\ img' = r.img
          /\ last' = Call("decode", <<text>>, r.err, 0)
    /\ UNCHANGED <<gen, app>>

ResizeV2(w, h) ==
    /\ gen = 2
    /\ \E r \in {resize(img, w, h)} :
          /\ img' = r.img
          /\ last' = Call("resize", <<w, h>>, r.err, 0)
    /\ UNCHANGED <<gen, app>>

\* img.save(f) and then other.load(f), after which the program holds `other`:
\* the file holds what encode returned, and load decodes what the file holds
SaveThenLoadV2(other) ==
    /\ gen = 2
    /\ \E saved \in {encodeV2(img)} :
          IF saved.err # NoError
          THEN /\ img' = img
               /\ last' = Call("saveLoad", <<other.width, other.height>>, saved.err, 0)
          ELSE \E loaded \in {decodeV2(other, saved.ret)} :
               /\ img' = loaded.img
               /\ last' = Call("saveLoad", <<other.width, other.height>>, loaded.err, 0)
    /\ UNCHANGED <<gen, app>>

----------------------------------------------------------------------------
(* Operations of the v1 program *)

NewV1(w, h) ==
    /\ gen = 1
    /\ img' = constructorV1(w, h)
    /\ last' = Call("new", <<w, h>>, NoError, 0)
    /\ UNCHANGED <<gen, app>>

CreateSampleV1 ==
    /\ gen = 1
    /\ \E sample \in {sampleV1} :
          /\ img' = sample
          /\ last' = Call("createSample", << >>, NoError, encodeV1(sample).ret)
    /\ UNCHANGED <<gen, app>>

SetPixelV1(x, y, rgba) ==
    /\ gen = 1
    /\ \E r \in {setPixelV1(img, x, y, rgba)} :
          /\ img' = r.img
          /\ last' = Call("setPixel", <<x, y, rgba>>, r.err, 0)
    /\ UNCHANGED <<gen, app>>

GetPixelV1(x, y) ==
    /\ gen = 1
    /\ \E r \in {getPixelV1(img, x, y)} : last' = Call("getPixel", <<x, y>>, r.err, r.ret)
    /\ UNCHANGED <<gen, img, app>>

EncodeV1 ==
    /\ gen = 1
    /\ \E r \in {encodeV1(img)} : last' = Call("encode", << >>, r.err, r.ret)
    /\ UNCHANGED <<gen, img, app>>

DecodeV1(text) ==
    /\ gen = 1
    /\ \E r \in {decodeV1(img, text)} :
          /\ img' = r.img
          /\ last' = Call("decode", <<text>>, r.err, 0)
    /\ UNCHANGED <<gen, app>>

SaveThenLoadV1(other) ==
    /\ gen = 1
    /\ \E saved \in {encodeV1(img)} :
          IF saved.err # NoError
          THEN /\ img' = img
               /\ last' = Call("saveLoad", <<other.width, other.height>>, saved.err, 0)
          ELSE \E loaded \in {decodeV1(other, saved.ret)} :
               /\ img' = loaded.img
               /\ last' = Call("saveLoad", <<other.width, other.height>>, loaded.err, 0)
    /\ UNCHANGED <<gen, app>>

----------------------------------------------------------------------------
(* Specifications *)

\* every operation of the image, on every input drawn
Next ==
    \/ \E s \in Sizes : NewV2(s[1], s[2])
    \/ CreateSampleV2
    \/ \E p \in Points(img), v \in PaletteSamples \cup {BadIndex} : SetPixelV2(p[1], p[2], v)
    \/ \E p \in Points(img) : GetPixelV2(p[1], p[2])
    \/ EncodeV2
    \/ \E t \in TextsV2 : DecodeV2(t)
    \/ \E s \in Sizes : ResizeV2(s[1], s[2])
    \/ \E s \in SmallSizes : NewV1(s[1], s[2])
    \/ CreateSampleV1
    \/ \E p \in Points(img), c \in ColourSamples : SetPixelV1(p[1], p[2], c)
    \/ \E p \in Points(img) : GetPixelV1(p[1], p[2])
    \/ EncodeV1
    \/ \E t \in TextsV1 : DecodeV1(t)

Spec == Init /\ [][Next]_vars

\* the grids of the round-trip and layout contracts: construction, then
\* in-bounds setPixel calls with values of the pixel type; encoded, and saved
\* and loaded back
NextBuilt ==
    \/ \E s \in Sizes : NewV2(s[1], s[2])
    \/ CreateSampleV2
    \/ \E p \in Points(img), v \in PaletteSamples :
          InBounds(img, p[1], p[2]) /\ SetPixelV2(p[1], p[2], v)
    \/ EncodeV2
    \/ \E o \in OtherImagesV2 : SaveThenLoadV2(o)
    \/ \E s \in SmallSizes : NewV1(s[1], s[2])
    \/ CreateSampleV1
    \/ \E p \in Points(img), c \in ColourSamples :
          InBounds(img, p[1], p[2]) /\ SetPixelV1(p[1], p[2], c)
    \/ EncodeV1
    \/ \E o \in OtherImagesV1 : SaveThenLoadV1(o)

SpecBuilt == Init /\ [][NextBuilt]_vars

\* grids built only by construction and setPixel calls, with any coordinates
\* and any value argument, and their encodings
NextSet ==
    \/ \E s \in SmallSizes : NewV2(s[1], s[2])
    \/ \E p \in Points(img), v \in PaletteSamples \cup {BadIndex} : SetPixelV2(p[1], p[2], v)
    \/ EncodeV2
    \/ \E s \in SmallSizes : NewV1(s[1], s[2])
    \/ \E p \in Points(img), c \in ColourSamples : SetPixelV1(p[1], p[2], c)
    \/ EncodeV1

SpecSet == Init /\ [][NextSet]_vars

\* the behaviours in which every call returned without raising an error
NextReturned == Next /\ last'.err = NoError

SpecReturned == Init /\ [][NextReturned]_vars

----------------------------------------------------------------------------
(* The interactive programs *)

\* the state after the constructor of the editor (started without a file
\* name) or of the viewer, which loads the file it finds
InitApp ==
    /\ gen \in {1, 2}
    /\ \/ /\ img = IF gen = 2 THEN constructorV2(20, 10) ELSE constructorV1(20, 10)
          /\ app = IF gen = 2 THEN newApp ELSE newAppV1
          /\ last = Call("new", <<20, 10>>, NoError, 0)
       \/ /\ gen = 2
          /\ img = constructorV2(20, 10)
          /\ app = newViewer
          /\ last = Call("new", <<20, 10>>, NoError, 0)
       \/ /\ gen = 2
          /\ \E file \in FilesV2 :
                \E out \in {viewerLoadImage(newViewer, constructorV2(20, 10), file)} :
                    /\ img = out.img
                    /\ app = out.app
                    /\ last = Call("loadImage", <<file.name>>, out.err, out.caught)

\* an event handler ran and ended as out says; ret is the error it caught
Handled(op, args, out) ==
    /\ img' = out.img
    /\ app' = [out.app EXCEPT !.events = @ + 1]
    /\ last' = Call(op, args, out.err, out.caught)
    /\ UNCHANGED gen

\* the v2 editor runs: no error has escaped a handler
EditorV2 == gen = 2 /\ app.kind = "editor" /\ ~app.crashed /\ app.events < MaxEvents

\* a key reaches the handlers bound to the screen: the terminal library gives
\* the keys to the input while it reads a line
ScreenKey == EditorV2 /\ ~app.inputReading

MoveCursor(dx, dy) ==
    /\ ScreenKey
    /\ \E out \in {moveCursor(app, img, dx, dy)} : Handled("moveCursor", <<dx, dy>>, out)

PaintAtCursor ==
    /\ ScreenKey
    /\ \E out \in {paintAtCursor(app, img)} : Handled("paintAtCursor", << >>, out)

HandleCanvasClick(x, y) ==
    /\ EditorV2
    /\ \E out \in {handleCanvasClick(app, img, x, y)} : Handled("handleCanvasClick", <<x, y>>, out)

SaveImage ==
    /\ ScreenKey
    /\ \E out \in {saveImage(app, img)} : Handled("saveImage", << >>, out)

LoadImage(file) ==
    /\ ScreenKey
    /\ \E out \in {loadImage(app, img, file)} : Handled("loadImage", <<file.name>>, out)

NewImage ==
    /\ ScreenKey
    /\ \E out \in {newImage(app, img)} : Handled("newImage", << >>, out)

ChangeChar ==
    /\ ScreenKey
    /\ \E out \in {changeChar(app, img)} : Handled("changeChar", << >>, out)

ChangeBrushSize ==
    /\ ScreenKey
    /\ \E out \in {changeBrushSize(app, img)} : Handled("changeBrushSize", << >>, out)

ShowResizeDialog ==
    /\ ScreenKey
    /\ \E out \in {showResizeDialog([app EXCEPT !.submitted = << >>], img)} :
          Handled("showResizeDialog", << >>, out)

\* escape, typed into the input while it reads a line; the key ends the reading
HideResizeDialog ==
    /\ EditorV2
    /\ app.inputReading
    /\ \E out \in {hideResizeDialog([app EXCEPT !.inputReading = FALSE], img)} :
          Handled("hideResizeDialog", << >>, out)

\* enter, typed into the input while it reads a line; the key ends the reading
HandleResizeInput(value) ==
    /\ EditorV2
    /\ app.inputReading
    /\ value \in ResizeValues(app.resizeStep)
    /\ \E out \in {handleResizeInput([app EXCEPT !.inputReading = FALSE,
                                                 !.submitted = Append(@, value)], img, value)} :
          Handled("handleResizeInput", <<value>>, out)

\* the v1 editor runs
EditorV1 == gen = 1 /\ app.kind = "editor" /\ ~app.crashed /\ app.events < MaxEvents

LoadImageV1(file) ==
    /\ EditorV1
    /\ \E out \in {loadImageV1(app, img, file)} : Handled("loadImage", <<file.name>>, out)

NewImageV1 ==
    /\ EditorV1
    /\ \E out \in {newImageV1(app, img)} : Handled("newImage", << >>, out)

ToggleFitMode ==
    /\ gen = 2 /\ app.kind = "viewer" /\ ~app.crashed /\ app.events < MaxEvents
    /\ \E out \in {toggleFitMode(app, img)} : Handled("toggleFitMode", << >>, out)

\* every event of the editors and of the viewer
NextApp ==
    \/ \E d \in {<<0, -1>>, <<0, 1>>, <<-1, 0>>, <<1, 0>>} : MoveCursor(d[1], d[2])
    \/ PaintAtCursor
    \/ \E p \in Points(img) : HandleCanvasClick(p[1], p[2])
    \/ SaveImage
    \/ \E file \in FilesV2 \cup {NoFiles} : LoadImage(file)
    \/ NewImage
    \/ ChangeChar
    \/ ChangeBrushSize
    \/ ShowResizeDialog
    \/ HideResizeDialog
    \/ \E value \in AllResizeValues : HandleResizeInput(value)
    \/ \E file \in FilesV1 \cup {NoFiles} : LoadImageV1(file)
    \/ NewImageV1
    \/ ToggleFitMode

SpecApp == InitApp /\ [][NextApp]_vars

----------------------------------------------------------------------------
(* What the claims speak of *)

\* (x, y) lies outside [0, W) x [0, H)
OutsideGrid(im, x, y) == ~(x >= 0 /\ Lt(x, im.width) /\ y >= 0 /\ Lt(y, im.height))

\* im is a grid of size width x height: its pixel array has height rows of
\* width cells
GridOfSize(im) ==
    /\ im.width # NaN /\ im.height # NaN
    /\ im.width >= 0 /\ im.height >= 0
    /\ Len(im.pixels) = im.height
    /\ \A y \in 1..Len(im.pixels) : Len(im.pixels[y]) = im.width

\* some cell of im differs from `fill`
Painted(im, fill) ==
    \E y \in 1..Len(im.pixels) : \E x \in 1..Len(im.pixels[y]) : im.pixels[y][x] # fill

----------------------------------------------------------------------------
(* C1: round trip.  Under SpecBuilt every image is a grid built by           *)
(* construction and in-bounds setPixel calls with values of its pixel type.  *)
(* Whenever such a grid G is saved and the file is loaded by another image   *)
(* object of the same generation, in whatever state that object is, the load *)
(* returns without error and leaves that object with G's width and height    *)
(* and with G's cells.                                                       *)
C1_RoundTrip ==
    [][ last'.op = "saveLoad" =>
            /\ last'.err = NoError
            /\ img'.width = img.width
            /\ img'.height = img.height
            /\ img'.pixels = img.pixels ]_vars

\* a painted v1 grid was loaded by an object that had other dimensions
C1_Witness ==
    /\ gen = 1
    /\ last.op = "saveLoad" /\ last.err = NoError
    /\ last.args # <<img.width, img.height>>
    /\ Painted(img, BlackOpaque)

(* C2: getPixel out of bounds.  For either generation, a getPixel(x, y) with *)
(* (x, y) outside the grid returns without error the default fill of the     *)
(* grid: 0 for v2, (0, 0, 0, 255) for v1.                                    *)
C2_GetPixelOutOfBounds ==
    (last.op = "getPixel" /\ OutsideGrid(img, last.args[1], last.args[2])) =>
        /\ last.err = NoError
        /\ last.ret = IF gen = 2 THEN 0 ELSE BlackOpaque

(* C3: setPixel out of bounds.  For either generation, a setPixel(x, y, v)   *)
(* with (x, y) outside the grid returns without error and leaves the image   *)
(* (width, height and every cell) as it was.                                 *)
C3_SetPixelOutOfBounds ==
    [][ (last'.op = "setPixel" /\ OutsideGrid(img, last'.args[1], last'.args[2])) =>
            /\ last'.err = NoError
            /\ img' = img ]_vars

\* setPixel was called just past the right edge of a non-empty v2 grid, with a
\* value that is no palette index
C3_Witness ==
    /\ gen = 2
    /\ last.op = "setPixel"
    /\ img.width # NaN /\ img.width > 0
    /\ last.args = <<img.width, 0, BadIndex>>

\* what this.pixels[y][x] reads (0-based), undefined where the array has no
\* such element
CellAt(im, x, y) ==
    IF y + 1 <= Len(im.pixels) /\ x + 1 <= Len(im.pixels[y + 1])
    THEN im.pixels[y + 1][x + 1] ELSE Undefined

\* n clamped to max
Clamped(n, max) == IF n > max THEN max ELSE n

(* C4: resize preserves overlap.  A resize(w, h) of a v2 grid of size W x H  *)
(* returns without error; and whenever resize returns, the image has the     *)
(* size W' x H' = min(w, 150) x min(h, 25) with H' rows of W' cells, every   *)
(* cell with x < min(W, W') and y < min(H, H') holds what the image held     *)
(* there before, and every other cell holds 0.                               *)
C4_ResizePreservesOverlap ==
    [][ (gen = 2 /\ last'.op = "resize") =>
            LET newW == Clamped(last'.args[1], MAX_WIDTH)
                newH == Clamped(last'.args[2], MAX_HEIGHT)
            IN  /\ GridOfSize(img) => last'.err = NoError
                /\ last'.err = NoError =>
                      /\ img'.width = newW /\ img'.height = newH
                      /\ Len(img'.pixels) = newH
                      /\ \A y \in 1..newH :
                            /\ Len(img'.pixels[y]) = newW
                            /\ \A x \in 1..newW :
                                  img'.pixels[y][x] =
                                      IF Lt(x - 1, img.width) /\ Lt(y - 1, img.height)
                                      THEN CellAt(img, x - 1, y - 1)
                                      ELSE 0 ]_vars

\* a resize gave a grid at least 2 x 2 that keeps a painted first cell and
\* whose last cell is the default
C4_Witness ==
    /\ gen = 2
    /\ last.op = "resize" /\ last.err = NoError
    /\ GridOfSize(img) /\ img.width >= 2 /\ img.height >= 2
    /\ img.pixels[1][1] = 15
    /\ img.pixels[img.height][img.width] = 0

(* C5: clamping.  After new EHEXImage(w, h) a v2 image has width min(w, 150) *)
(* and height min(h, 25) and height rows of width cells, every cell 0; after *)
(* a resize(w, h) that returned, it has width min(w, 150) and height         *)
(* min(h, 25).                                                               *)
C5_ClampOnNewAndResize ==
    gen = 2 =>
        /\ last.op = "new" =>
              /\ img.width = Clamped(last.args[1], MAX_WIDTH)
              /\ img.height = Clamped(last.args[2], MAX_HEIGHT)
              /\ GridOfSize(img)
              /\ ~Painted(img, 0)
        /\ (last.op = "resize" /\ last.err = NoError) =>
              /\ img.width = Clamped(last.args[1], MAX_WIDTH)
              /\ img.height = Clamped(last.args[2], MAX_HEIGHT)

\* a v2 image was constructed with a width over the maximum
C5_Witness ==
    /\ gen = 2
    /\ last.op = "new" /\ last.args[1] > MAX_WIDTH
    /\ img.width = MAX_WIDTH

(* C6: the v2 maximum.  Whatever sequence of construction, setPixel, resize  *)
(* and decode calls was made on a v2 image, width <= 150 and height <= 25.   *)
C6_WithinMaximum ==
    gen = 2 =>
        /\ img.width # NaN /\ img.width <= MAX_WIDTH
        /\ img.height # NaN /\ img.height <= MAX_HEIGHT

(* C7: version rejection.  When the v2 decoder is given a text whose first   *)
(* line is the legacy magic EHEX, decode throws the "not supported, convert  *)
(* to v2" error, which is not the invalid-file error, and the image is as it *)
(* was: no line after the first had any effect.                              *)
C7_LegacyMagicRejected ==
    [][ (gen = 2 /\ last'.op = "decode" /\ last'.args[1][1] = EHEX) =>
            /\ last'.err = V1NotSupported
            /\ last'.err # InvalidFile
            /\ img' = img ]_vars

\* the v2 decoder was given a legacy text declaring a size the image does not
\* have
C7_Witness ==
    /\ gen = 2
    /\ last.op = "decode" /\ last.args[1][1] = EHEX
    /\ \E i \in 2..Len(last.args[1]) : last.args[1][i] = SizeLine(1, 1)
    /\ img.width # 1

\* the magic lines a decoder recognises
KnownMagic(version) == IF version = 2 THEN {EHEX2, EHEX} ELSE {EHEX}

(* C8: magic rejection.  When either decoder is given a text whose first     *)
(* line is no magic it recognises (v2: EHEX2 or EHEX; v1: EHEX), decode      *)
(* throws the invalid-file error and the image (width, height, version,      *)
(* pixels) is as it was.                                                     *)
C8_UnknownMagicRejected ==
    [][ (last'.op = "decode" /\ last'.args[1][1] \notin KnownMagic(gen)) =>
            /\ last'.err = InvalidFile
            /\ img' = img ]_vars

\* the v1 decoder was given a v2 text declaring a size the image does not have
C8_Witness ==
    /\ gen = 1
    /\ last.op = "decode" /\ last.args[1][1] = EHEX2
    /\ \E i \in 2..Len(last.args[1]) : last.args[1][i] = SizeLine(1, 1)
    /\ img.width # 1

\* the text has the line `line` between its first line and its PIXELS: marker
InHeader(text, line) ==
    \E i \in 2..Len(text) :
        /\ text[i] = line
        /\ \A j \in 2..i : text[j] # PixelsMarker

(* C9: unsupported version.  When a decoder (v1 implements version 1, v2     *)
(* version 2) is given a text with its own magic whose version line declares *)
(* another version, decode throws the unsupported-version error.             *)
C9_OtherVersionRejected ==
    (/\ last.op = "decode"
     /\ last.args[1][1] = (IF gen = 2 THEN EHEX2 ELSE EHEX)
     /\ \E v \in {1, 2, 3} \ {gen} : InHeader(last.args[1], VersionLine(v)))
        => last.err = UnsupportedVersion

\* the characters of one pixel in a data line: one lower-case hex digit (v2);
\* two upper-case hex digits for each of R, G, B, A (v1)
PixelGroup(version, cell) ==
    IF version = 2 THEN <<LowerDigits[cell + 1]>>
    ELSE << UpperDigits[(cell[1] \div 16) + 1], UpperDigits[(cell[1] % 16) + 1],
            UpperDigits[(cell[2] \div 16) + 1], UpperDigits[(cell[2] % 16) + 1],
            UpperDigits[(cell[3] \div 16) + 1], UpperDigits[(cell[3] % 16) + 1],
            UpperDigits[(cell[4] \div 16) + 1], UpperDigits[(cell[4] % 16) + 1] >>

\* the number of characters of a pixel-group
GroupLen(version) == IF version = 2 THEN 1 ELSE 8

\* the header of the text of im, the marker included
LayoutHeader(version, im) ==
    << (IF version = 2 THEN EHEX2 ELSE EHEX),
       VersionLine(version),
       SizeLine(im.width, im.height) >>
    \o (IF version = 1 THEN << ChannelsPrefix \o <<"4">> >> ELSE << >>)
    \o <<PixelsMarker>>

\* text is the header of im, then exactly height data lines of exactly width
\* pixel-groups, each line ended by a newline
HasLayout(version, im, text) ==
    LET header == LayoutHeader(version, im)
        g == GroupLen(version)
    IN  /\ Len(text) = Len(header) + im.height + 1
        /\ SubSeq(text, 1, Len(header)) = header
        /\ text[Len(text)] = << >>
        /\ \A y \in 1..im.height :
              LET line == text[Len(header) + y]
              IN  /\ Len(line) = im.width * g
                  /\ \A x \in 1..im.width :
                        SubSeq(line, (x - 1) * g + 1, x * g)
                            = PixelGroup(version, im.pixels[y][x])

C11_PaletteBounds ==
    gen = 2 =>
        /\ \A y \in 1..Len(img.pixels) : \A x \in 1..Len(img.pixels[y]) :
              img.pixels[y][x] \in 0..15
        /\ (last.op = "encode" /\ last.err = NoError) =>
              \A y \in 1..img.height :
                  /\ Len(last.ret[4 + y]) = img.width
                  /\ \A x \in 1..Len(last.ret[4 + y]) :
                        \E d \in 1..16 : last.ret[4 + y][x] = LowerDigits[d]

\* the index of the PIXELS: marker of a text, Len(text) + 1 when it has none
MarkerAt(text) ==
    IF \E i \in 2..Len(text) : text[i] = PixelsMarker
    THEN CHOOSE i \in 2..Len(text) :
             text[i] = PixelsMarker /\ \A j \in 2..(i - 1) : text[j] # PixelsMarker
    ELSE Len(text) + 1

\* the texts that differ from text only in the order of the lines between the
\* magic line and the marker
Orderings(text) ==
    LET k == MarkerAt(text)
        n == k - 2
        perms == {f \in [1..n -> 1..n] : \A a, b \in 1..n : a # b => f[a] # f[b]}
    IN  { <<text[1]>> \o [i \in 1..n |-> text[1 + f[i]]] \o SubSeq(text, k, Len(text)) :
             f \in perms }

\* decode of the generation
decodeOf(version, im, text) == IF version = 2 THEN decodeV2(im, text) ELSE decodeV1(im, text)

(* C12: header order independence.  When a decoder is given a text with a    *)
(* magic line it knows, decode of the same text with the lines between the   *)
(* magic and the PIXELS: marker in any other order ends the same way: the    *)
(* same error or none, and when none the same width, height and cells.  When *)
(* decode returns and the text has a marker, the image has exactly height    *)
(* rows, read from the lines after the marker.                               *)
C12_HeaderOrderIndependence ==
    [][ (last'.op = "decode" /\ last'.args[1][1] \in KnownMagic(gen)) =>
            /\ \A t \in Orderings(last'.args[1]) :
                  \E r \in {decodeOf(gen, img, t)} :
                      /\ r.err = last'.err
                      /\ last'.err = NoError =>
                            /\ r.img.width = img'.width
                            /\ r.img.height = img'.height
                            /\ r.img.pixels = img'.pixels
            /\ (last'.err = NoError /\ MarkerAt(last'.args[1]) <= Len(last'.args[1])) =>
                  Len(img'.pixels) = Count(img'.height) ]_vars

\* the v2 decoder read a text whose size line comes before its version line
C12_Witness ==
    /\ gen = 2
    /\ last.op = "decode" /\ last.err = NoError
    /\ last.args[1][2] = SizeLine(Declared[1], Declared[2])
    /\ last.args[1][3] = VersionLine(2)
    /\ GridOfSize(img) /\ img.width = Declared[1]

\* the sizes the texts declare
DeclaredSizes == {Declared, <<1, 1>>, <<MAX_WIDTH + 1, 1>>}

\* the data lines of a text: the lines after the marker, without the empty one
\* that a final newline leaves
DataLines(text) ==
    LET body == SubSeq(text, MarkerAt(text) + 1, Len(text))
    IN  IF Len(body) > 0 /\ body[Len(body)] = << >>
        THEN SubSeq(body, 1, Len(body) - 1) ELSE body

\* text is a v2 text of version 2 declaring w x h, with a marker, whose body is
\* short: fewer than h data lines, or a data line of fewer than w characters
ShortBody(text, w, h) ==
    /\ text[1] = EHEX2
    /\ InHeader(text, VersionLine(2))
    /\ InHeader(text, SizeLine(w, h))
    /\ MarkerAt(text) <= Len(text)
    /\ \/ Len(DataLines(text)) < h
       \/ \E y \in 1..h : y <= Len(DataLines(text)) /\ Len(DataLines(text)[y]) < w

(* C13: short body.  When the v2 decoder is given a text with the magic      *)
(* EHEX2, version 2, SIZE:WxH and a PIXELS: marker whose body has fewer than *)
(* H data lines or a data line shorter than W, decode returns without error  *)
(* and leaves a grid of H rows of W cells; the cells that had data hold it   *)
(* and the cells that had none hold not-a-number.                            *)
C13_ShortBodyReadsGarbage ==
    \A size \in DeclaredSizes :
        (/\ gen = 2
         /\ last.op = "decode"
         /\ ShortBody(last.args[1], size[1], size[2]))
            => /\ last.err = NoError
               /\ img.width = size[1] /\ img.height = size[2]
               /\ GridOfSize(img)
               /\ \A y \in 1..size[2] : \A x \in 1..size[1] :
                     LET lines == DataLines(last.args[1])
                     IN  img.pixels[y][x] =
                             IF y <= Len(lines) /\ x <= Len(lines[y])
                             THEN DigitValue(lines[y][x])
                             ELSE NaN

(* C15: grid shape.  Under SpecReturned every call made on the image         *)
(* returned without raising an error.  A v2 image then has a pixel array of  *)
(* exactly height rows, each of exactly width cells.                         *)
C15_GridShape ==
    gen = 2 => GridOfSize(img)

(* C16: a failed decode is atomic.  Whenever decode on a v2 image raises an  *)
(* error of any kind, the image's width, height and pixels are what they     *)
(* were before the call.                                                     *)
C16_FailedDecodeAtomic ==
    [][ (gen = 2 /\ last'.op = "decode" /\ last'.err # NoError) =>
            /\ img'.width = img.width
            /\ img'.height = img.height
            /\ img'.pixels = img.pixels ]_vars

\* a load raised an error: one that loadImage caught (last.ret) or one that
\* escaped it (last.err)
LoadRaised(l) == l.op = "loadImage" /\ (l.err # NoError \/ l.ret # NoError)

(* C14: no crash on a malformed file.  In the v1 editor, the v2 editor and   *)
(* the viewer, whenever the file read or the codec raises an error during    *)
(* loadImage, loadImage catches it, shows it as the status or info message   *)
(* and returns normally: no error escapes it and the session goes on.        *)
C14_LoadImageCatches ==
    LoadRaised(last) =>
        /\ last.err = NoError
        /\ ~app.crashed
        /\ app.status = <<"Error", last.ret>>

(* C17: cursor invariant.  After any sequence of events of a running v2      *)
(* editor, 0 <= cursorX < currentImage.width and 0 <= cursorY <              *)
(* currentImage.height.                                                      *)
C17_CursorInBounds ==
    (gen = 2 /\ app.kind = "editor" /\ ~app.crashed) =>
        /\ app.cursorX >= 0 /\ Lt(app.cursorX, img.width)
        /\ app.cursorY >= 0 /\ Lt(app.cursorY, img.height)

(* C18: a failed load keeps the save target.  Whenever loadImage of the v2   *)
(* editor fails (the file read or decode raised an error), the editor's      *)
(* filename is what it was before the call.                                  *)
C18_FailedLoadKeepsFilename ==
    [][ (gen = 2 /\ app.kind = "editor" /\ LoadRaised(last')) =>
            app'.filename = app.filename ]_vars

\* the cells (cursorX + dx, cursorY + dy), 0 <= dx, dy < brushSize, that lie
\* inside the grid of im
BrushCells(a, im) ==
    { c \in { <<a.cursorX + dx, a.cursorY + dy>> :
                  dx \in 0..(a.brushSize - 1), dy \in 0..(a.brushSize - 1) } :
          ~OutsideGrid(im, c[1], c[2]) }

\* the frame of a paintAtCursor that took (a, im) to (b, jm)
PaintedExactly(a, im, b, jm) ==
    /\ jm.width = im.width /\ jm.height = im.height
    /\ b.cursorX = a.cursorX /\ b.cursorY = a.cursorY
    /\ b.brushSize = a.brushSize /\ b.currentChar = a.currentChar
    /\ \A x \in 0..(im.width - 1), y \in 0..(im.height - 1) :
           CellAt(jm, x, y) = IF <<x, y>> \in BrushCells(a, im) THEN a.currentChar
                              ELSE CellAt(im, x, y)
    /\ Len(jm.pixels) = Len(im.pixels)
    /\ \A y \in 1..Len(im.pixels) :
           /\ Len(jm.pixels[y]) = Len(im.pixels[y])
           /\ \A x \in 1..Len(im.pixels[y]) :
                  <<x - 1, y - 1>> \notin BrushCells(a, im) =>
                      jm.pixels[y][x] = im.pixels[y][x]

(* C19: brush painting frame.  In the v2 editor the brush size is always     *)
(* one of 1, 2, 3 and cycles 1 -> 2 -> 3 -> 1 on changeBrushSize, the        *)
(* current character is always in 0..15 and advances by 1 mod 16 on          *)
(* changeChar, and with the cursor in bounds paintAtCursor returns having    *)
(* set to the current character exactly the cells of the brush square that   *)
(* lie inside the grid, every other cell, the dimensions, the cursor, the    *)
(* brush size and the current character being unchanged.                     *)
C19_BrushPaintingFrame ==
    [][ (gen = 2 /\ app.kind = "editor") =>
            /\ app.brushSize \in 1..3 /\ app'.brushSize \in 1..3
            /\ app.currentChar \in 0..15 /\ app'.currentChar \in 0..15
            /\ last'.op = "changeBrushSize" =>
                   app'.brushSize = (app.brushSize % 3) + 1
            /\ last'.op = "changeChar" =>
                   app'.currentChar = (app.currentChar + 1) % 16
            /\ (last'.op = "paintAtCursor"
                    /\ ~OutsideGrid(img, app.cursorX, app.cursorY)) =>
                   /\ last'.err = NoError
                   /\ PaintedExactly(app, img, app', img') ]_vars

\* v is a number in 1..max
InRange(v, max) == v # NaN /\ v > 0 /\ v <= max

\* the values submitted since the dialog was last shown are a width in
\* 1..150 and after it a height in 1..25
WidthThenHeight(s) ==
    Len(s) = 2 /\ InRange(s[1], MAX_WIDTH) /\ InRange(s[2], MAX_HEIGHT)

\* the value submitted last is a width in 1..150, a height still to come
WidthAccepted(s) == Len(s) = 1 /\ InRange(s[1], MAX_WIDTH)

(* C20: resize-dialog protocol of the v2 editor.  The canvas is resized      *)
(* only when, since the most recent showResizeDialog, a width in 1..150 and  *)
(* after it a height in 1..25 were submitted, and the grid then has exactly  *)
(* that width and height; a submission out of range or not a number closes   *)
(* the dialog and leaves dimensions and pixels unchanged; after every apply  *)
(* or rejection showResizePanel is false; while the dialog is shown a canvas *)
(* click changes neither cursor nor grid.                                    *)
C20_ResizeDialogProtocol ==
    [][ (gen = 2 /\ app.kind = "editor") =>
            LET s == app'.submitted
                submit == last'.op = "handleResizeInput"
            IN  /\ (last'.op \notin {"loadImage", "newImage"}
                        /\ (img'.width # img.width \/ img'.height # img.height)) =>
                       submit /\ WidthThenHeight(s)
                /\ (submit /\ WidthThenHeight(s)) =>
                       /\ last'.err = NoError
                       /\ img'.width = s[1] /\ img'.height = s[2]
                       /\ GridOfSize(img')
                       /\ ~app'.showResizePanel
                /\ (submit /\ ~WidthThenHeight(s) /\ ~WidthAccepted(s)) =>
                       /\ last'.err = NoError
                       /\ img' = img
                       /\ ~app'.showResizePanel
                /\ (last'.op = "handleCanvasClick" /\ app.showResizePanel) =>
                       /\ app'.cursorX = app.cursorX /\ app'.cursorY = app.cursorY
                       /\ img' = img ]_vars

====
